---- MODULE Spec2Model ----
(***************************************************************************)
(* The AI application marketplace page (marketplace.py) and the card       *)
(* renderer it calls (helpers.py).  One page view is one run of the        *)
(* script: the catalog is loaded from apps.json, the toolbar widgets       *)
(* return the criteria, the filter loop builds filtered_apps, and every    *)
(* surviving record is rendered by render_app_card.                        *)
(*                                                                         *)
(* Python strings are sequences of one-character strings, so that          *)
(* str.lower, str.strip, the `in` substring test and html.escape are       *)
(* computed and not assumed.  A dict is a function whose DOMAIN is the     *)
(* set of keys the record really has.                                      *)
(***************************************************************************)
EXTENDS Naturals, Sequences, FiniteSets

VARIABLES
    store,                   \* apps.json: the catalog document
    env,                     \* os.environ, as read at import of helpers.py
    pc,                      \* position of the script run (one page view)
    app_cards,               \* marketplace.py:74
    search_query,            \* marketplace.py:85
    selected_ai_types,       \* marketplace.py:88
    selected_business_lines, \* marketplace.py:89
    selected_functions,      \* marketplace.py:90
    i,                       \* index of the filter loop, marketplace.py:124
    filtered_apps,           \* marketplace.py:123
    j,                       \* index of the render loop, marketplace.py:140
    rendered,                \* what render_app_card emitted, card by card
    error,                   \* the uncaught exception that ended the run
    archive,                 \* the file "UBS website.webarchive" on disk
    remote,                  \* what the two icon endpoints answer
    boot,                    \* assets.py: how many globals are assigned
    assets,                  \* assets.py: the module's globals
    imported_from,           \* the archive and endpoints the import read
    lookups,                 \* the calls of _find_first_data_uri so far
    page,                    \* what the sections above the toolbar show
    fs,                      \* the files and directories of the working directory
    image_cache,             \* helpers.py:335, the memo of _image_to_data_uri
    session_state,           \* st.session_state of the browser session
    containers,              \* the ubs_container blocks opened in the session
    clock                    \* datetime.utcnow(), in hours

assetVars == <<archive, remote, boot, assets, imported_from, lookups, page>>

imageVars == <<fs, image_cache>>

sessionVars == <<session_state, containers, clock>>

vars == <<store, env, pc, app_cards, search_query, selected_ai_types,
          selected_business_lines, selected_functions, i, filtered_apps,
          j, rendered, error, assetVars, imageVars, sessionVars>>

\* Longest catalog document with freely chosen records.
MaxCards == 2

\* A further page view starts only while the session's container counter
\* is below this.
MaxSeq == 3

\* The hours the clock is followed for.
MaxClock == 1

----------------------------------------------------------------------------
(* Python values *)

\* Python's None, kept apart from every string (no string holds this token).
None == << "<None>" >>

Truthy(v) == v # None /\ v # << >>

Range(s) == { s[k] : k \in 1..Len(s) }

UpperChars ==
    << "A", "B", "C", "D", "E", "F", "G", "H", "I", "J", "K", "L",
       "M", "N", "O", "P", "Q", "R", "S", "T", "U", "V", "W", "X", "Y", "Z" >>
LowerChars ==
    << "a", "b", "c", "d", "e", "f", "g", "h", "i", "j", "k", "l",
       "m", "n", "o", "p", "q", "r", "s", "t", "u", "v", "w", "x", "y", "z" >>

\* the lower-case letter of each upper-case letter
LowerOf ==
    [ c \in Range(UpperChars) |->
          LowerChars[CHOOSE n \in 1..Len(UpperChars) : UpperChars[n] = c] ]

LowerChar(c) == IF c \in DOMAIN LowerOf THEN LowerOf[c] ELSE c

\* str.lower()
Lower(s) == [ n \in 1..Len(s) |-> LowerChar(s[n]) ]

Whitespace == { " ", "\t", "\n" }

RECURSIVE LStrip(_)
LStrip(s) ==
    IF s # << >> /\ Head(s) \in Whitespace THEN LStrip(Tail(s)) ELSE s

RECURSIVE RStrip(_)
RStrip(s) ==
    IF s # << >> /\ s[Len(s)] \in Whitespace
    THEN RStrip(SubSeq(s, 1, Len(s) - 1))
    ELSE s

\* str.strip()
Strip(s) == RStrip(LStrip(s))

\* needle in hay, for two strings
Contains(needle, hay) ==
    \E n \in 0..Len(hay) :
        /\ n + Len(needle) <= Len(hay)
        /\ SubSeq(hay, n + 1, n + Len(needle)) = needle

EscapeChar(c) ==
    CASE c = "&"  -> "&amp;"
      [] c = "<"  -> "&lt;"
      [] c = ">"  -> "&gt;"
      [] c = "\"" -> "&quot;"
      [] c = "'"  -> "&#x27;"
      [] OTHER    -> c

\* html.escape(s): one output token per input character
HtmlEscape(s) == [ n \in 1..Len(s) |-> EscapeChar(s[n]) ]

\* dict.get(key, default)
Get(app, key, default) == IF key \in DOMAIN app THEN app[key] ELSE default

\* dict.get(key) or ""
GetOrEmpty(app, key) ==
    IF Truthy(Get(app, key, None)) THEN app[key] ELSE << >>

\* the record without one key
Without(app, key) == [ k \in DOMAIN app \ {key} |-> app[k] ]

\* the record with one key set
With(app, key, v) ==
    [ k \in DOMAIN app \cup {key} |-> IF k = key THEN v ELSE app[k] ]

----------------------------------------------------------------------------
(* The catalog documents and criteria the model draws from *)

\* The options of the three st.pills widgets, two of each kept.
AiTypeOptions       == { << "N", "L", "P" >>, << "P", "A" >> }
BusinessLineOptions == { << "W", "M" >>, << "I", "B" >> }
FunctionOptions     == { << "R", "e" >>, << "K", "&", "R" >> }

\* What the user can have typed in the search box.
SearchTexts == { << >>, << "k", "Y" >>, << "y", "k" >>, << "r", "i" >> }

RiskSummarizer ==
    [ title         |-> << "R", "i", "s", "k" >>,
      description   |-> << "k", "y", "c" >>,
      ai_type       |-> << "N", "L", "P" >>,
      business_line |-> << "I", "B" >>,
      function      |-> << "R", "e" >>,
      status        |-> << "L", "i", "v", "e" >>,
      app_url       |-> << "u" >>,
      docs_url      |-> << "r" >>,
      tags          |-> << "x" >> ]

KycAssistant ==
    [ title         |-> << "K", "y", "c" >>,
      description   |-> << "r", "i" >>,
      ai_type       |-> << "P", "A" >>,
      business_line |-> << "W", "M" >>,
      function      |-> << "K", "&", "R" >>,
      status        |-> << "B", "e", "t", "a" >>,
      tags          |-> << "x" >> ]

\* The same card with a demo in the storage account.
KycDemo == With(KycAssistant, "demo_url", << "d" >>)

\* Records for the catalogs of any length up to MaxCards: two well-formed
\* ones and one record for each key the filter reads, lacking that key.
FilterCards ==
    { RiskSummarizer, KycAssistant,
      Without(KycAssistant, "title"),
      Without(RiskSummarizer, "ai_type"),
      Without(KycAssistant, "business_line"),
      Without(RiskSummarizer, "function") }

\* A key is absent, or holds one of the values.
Varied(cards, key, values) ==
    { Without(c, key) : c \in cards }
        \cup { With(c, key, v) : c \in cards, v \in values }

\* Every combination of the three links.
ActionCards ==
    Varied(Varied(Varied({KycAssistant},
        "app_url",  { << " " >>, << "u", "&" >> }),
        "demo_url", { << >>, << " " >>, << " ", "d" >> }),
        "docs_url", { << " " >>, << "r" >> })

TagValues == { << >>, << " " >>, << "W", "M" >>, << " ", "I", "B", "\n" >> }

\* Every combination of the two fields shown as tags.
TagCards ==
    Varied(Varied({RiskSummarizer},
        "business_line", TagValues),
        "function",      TagValues)

StatusValues ==
    { << >>,
      << "b", "e", "t", "a" >>,
      << "B", "e", "t", "a" >>,
      << " ", "B", "E", "T", "A", "\n" >>,
      << "p", "r", "e", "v", "i", "e", "w" >>,
      << "P", "R", "E", "V", "I", "E", "W", " " >>,
      << "L", "i", "v", "e" >>,
      << "b", "e", "t", "a", "s" >>,
      << "b", "e", " ", "t", "a" >> }

StatusCards == Varied({RiskSummarizer}, "status", StatusValues)

File(data) == [ isfile |-> TRUE,  data |-> data ]
Directory  == [ isfile |-> FALSE, data |-> << >> ]

ImageValues ==
    { << >>, << "h", "t", "t", "p", "s", ":", "/", "/", "h" >>, << " ", "h", "t", "t", "p", ":", "/", "/", "h" >>, << "d", "a", "t", "a", ":", "x" >>, << " ", "a", ".", "p", "n", "g" >>,
      << "b" >>, << "d" >> }

\* One record for each way the image of a card is given.
ImageCards == Varied({RiskSummarizer}, "image", ImageValues)

\* The working directory holds a directory d and may hold the files a.png
\* and b.
FsStates ==
    { [ p \in { << "d" >> } \cup files |->
            IF p = << "d" >> THEN Directory
            ELSE IF p = << "b" >> THEN File(<< 2 >>) ELSE File(png) ] :
        files \in SUBSET { << "a", ".", "p", "n", "g" >>, << "b" >> }, png \in { << 1 >>, << 3 >> } }

NoFiles == [ p \in { << "d" >> } |-> Directory ]

Single(cards) == { << c >> : c \in cards }

\* Catalogs of freely ordered, possibly repeated records, at most one of them
\* lacking a key: the view ends at the first such record that is read.
FilterCatalogs ==
    UNION { { cards \in [ 1..n -> FilterCards ] :
                Cardinality({ k \in 1..n :
                    cards[k] \notin { RiskSummarizer, KycAssistant } }) <= 1 } :
            n \in 0..MaxCards }

DemoCatalogs == Single(ActionCards)

Stores == FilterCatalogs \cup DemoCatalogs \cup Single(TagCards \cup StatusCards)

EnvKeys == { "AZURE_STORAGE_ACCOUNT_NAME", "AZURE_STORAGE_ACCOUNT_KEY",
             "AZURE_STORAGE_CONTAINER_NAME" }

\* Each variable is unset, set to the empty string, or set.
Envs == UNION { [ set -> { << >>, << "a" >> } ] : set \in SUBSET EnvKeys }

FullEnv == [ k \in EnvKeys |-> << "a" >> ]

----------------------------------------------------------------------------
(* assets.py: data URIs *)

Base64Alphabet ==
    << "A", "B", "C", "D", "E", "F", "G", "H", "I", "J", "K", "L", "M", "N", "O", "P",
       "Q", "R", "S", "T", "U", "V", "W", "X", "Y", "Z", "a", "b", "c", "d", "e", "f",
       "g", "h", "i", "j", "k", "l", "m", "n", "o", "p", "q", "r", "s", "t", "u", "v",
       "w", "x", "y", "z", "0", "1", "2", "3", "4", "5", "6", "7", "8", "9", "+", "/" >>

\* base64.b64encode over a sequence of bytes (0..255)
RECURSIVE Base64(_)
Base64(data) ==
    IF Len(data) = 0 THEN << >>
    ELSE IF Len(data) = 1
    THEN << Base64Alphabet[data[1] \div 4 + 1],
            Base64Alphabet[(data[1] % 4) * 16 + 1], "=", "=" >>
    ELSE IF Len(data) = 2
    THEN << Base64Alphabet[data[1] \div 4 + 1],
            Base64Alphabet[(data[1] % 4) * 16 + data[2] \div 16 + 1],
            Base64Alphabet[(data[2] % 16) * 4 + 1], "=" >>
    ELSE << Base64Alphabet[data[1] \div 4 + 1],
            Base64Alphabet[(data[1] % 4) * 16 + data[2] \div 16 + 1],
            Base64Alphabet[(data[2] % 16) * 4 + data[3] \div 64 + 1],
            Base64Alphabet[(data[3] % 64) + 1] >>
         \o Base64(SubSeq(data, 4, Len(data)))

\* _b64_uri
B64Uri(data, mime) ==
    << "d", "a", "t", "a", ":" >> \o mime \o << ";", "b", "a", "s", "e", "6", "4", "," >> \o Base64(data)

OctetStream == << "a", "p", "p", "l", "i", "c", "a", "t", "i", "o", "n", "/", "o", "c", "t", "e", "t", "-", "s", "t", "r", "e", "a", "m" >>
Woff2       == << "f", "o", "n", "t", "/", "w", "o", "f", "f", "2" >>
SvgXml      == << "i", "m", "a", "g", "e", "/", "s", "v", "g", "+", "x", "m", "l" >>

\* Mutant: the declared type of the sub-resource goes before the override.
DataUriFromWaDeclaredFirst(r, mime_override) ==
    LET mime == IF "WebResourceMIMEType" \in DOMAIN r
                THEN r["WebResourceMIMEType"]
                ELSE IF Truthy(mime_override) THEN mime_override
                ELSE OctetStream
    IN  B64Uri(Get(r, "WebResourceData", << >>), mime)

\* _data_uri_from_wa
DataUriFromWa(r, mime_override) ==
    LET mime == IF Truthy(mime_override)
                THEN mime_override
                ELSE Get(r, "WebResourceMIMEType", OctetStream)
    IN  B64Uri(Get(r, "WebResourceData", << >>), mime)

----------------------------------------------------------------------------
(* helpers.py: the signed demo link *)

account_name   == Get(env, "AZURE_STORAGE_ACCOUNT_NAME", None)
account_key    == Get(env, "AZURE_STORAGE_ACCOUNT_KEY", None)
container_name == Get(env, "AZURE_STORAGE_CONTAINER_NAME", None)

ErrMissingEnv == "error: Missing environment variables"
ErrSasToken   == "error: Error generating SAS token"
WarnNoSigned  == "warning: Could not generate signed URL for demo"

\* The f-string of helpers.py:37, with the token generate_blob_sas returned.
SignedUrl(blob_name) ==
    << "https://" >> \o account_name \o << ".blob.core.windows.net/" >>
        \o container_name \o << "/" >> \o blob_name \o << "?", "sas_token" >>

\* timedelta(hours=1), helpers.py:35
LinkValidHours == 1

\* Mutant: the link is asked for two hours, with write permission.
SasRequestTwoHoursWrite(blob_name, signer_ok) ==
    [ account_name   |-> account_name,
      container_name |-> container_name,
      blob_name      |-> blob_name,
      account_key    |-> account_key,
      permission     |-> { "read", "write" },
      expiry         |-> clock + LinkValidHours + LinkValidHours,
      returned       |-> signer_ok ]

\* One call of generate_blob_sas, helpers.py:29-36: its arguments, and
\* whether it returned a token or raised.
SasRequest(blob_name, signer_ok) ==
    [ account_name   |-> account_name,
      container_name |-> container_name,
      blob_name      |-> blob_name,
      account_key    |-> account_key,
      permission     |-> { "read" },
      expiry         |-> clock + LinkValidHours,
      returned       |-> signer_ok ]

\* Mutant: only an unset variable counts as missing, an empty one does not.
GetSignedUrlUnsetOnly(blob_name, signer_ok) ==
    IF account_name = None \/ account_key = None \/ container_name = None
    THEN [ value |-> None, errors |-> << ErrMissingEnv >>, calls |-> << >> ]
    ELSE IF signer_ok
         THEN [ value  |-> SignedUrl(blob_name), errors |-> << >>,
                calls  |-> << SasRequest(blob_name, signer_ok) >> ]
         ELSE [ value  |-> None, errors |-> << ErrSasToken >>,
                calls  |-> << SasRequest(blob_name, signer_ok) >> ]

\* get_signed_url: the value returned, the st.error messages shown and the
\* calls of generate_blob_sas made.
\* signer_ok: generate_blob_sas returns (TRUE) or raises (FALSE).
GetSignedUrl(blob_name, signer_ok) ==
    IF ~Truthy(account_name) \/ ~Truthy(account_key) \/ ~Truthy(container_name)
    THEN [ value |-> None, errors |-> << ErrMissingEnv >>, calls |-> << >> ]
    ELSE IF signer_ok
         THEN [ value  |-> SignedUrl(blob_name), errors |-> << >>,
                calls  |-> << SasRequest(blob_name, signer_ok) >> ]
         ELSE [ value  |-> None, errors |-> << ErrSasToken >>,
                calls  |-> << SasRequest(blob_name, signer_ok) >> ]

\* Mutant: the configuration is tested before the call, and a card is left
\* without a signed link in silence when it is incomplete.
ResolveDemoUrlSilent(demo_url, signer_ok) ==
    IF Truthy(demo_url) /\ Truthy(account_name) /\ Truthy(account_key)
           /\ Truthy(container_name)
    THEN LET got == GetSignedUrl(demo_url, signer_ok)
         IN  IF Truthy(got.value)
             THEN [ demo_url       |-> got.value,
                    azure_demo_url |-> got.value,
                    messages       |-> got.errors,
                    calls          |-> got.calls ]
             ELSE [ demo_url       |-> demo_url,
                    azure_demo_url |-> got.value,
                    messages       |-> got.errors \o << WarnNoSigned >>,
                    calls          |-> got.calls ]
    ELSE [ demo_url |-> demo_url, azure_demo_url |-> None, messages |-> << >>,
           calls |-> << >> ]

\* Mutant: a failed signing is tried a second time.
ResolveDemoUrlRetries(demo_url, signer_ok) ==
    IF Truthy(demo_url)
    THEN LET first == GetSignedUrl(demo_url, signer_ok)
             got   == IF Truthy(first.value) THEN first
                      ELSE [ GetSignedUrl(demo_url, signer_ok) EXCEPT
                                 !.calls = first.calls \o @ ]
         IN  IF Truthy(got.value)
             THEN [ demo_url       |-> got.value,
                    azure_demo_url |-> got.value,
                    messages       |-> got.errors,
                    calls          |-> got.calls ]
             ELSE [ demo_url       |-> demo_url,
                    azure_demo_url |-> got.value,
                    messages       |-> got.errors \o << WarnNoSigned >>,
                    calls          |-> got.calls ]
    ELSE [ demo_url |-> demo_url, azure_demo_url |-> None, messages |-> << >>,
           calls |-> << >> ]

\* render_app_card, lines 377-382: demo_url after the signing attempt,
\* what get_signed_url returned, every message shown on the way, and the
\* calls of generate_blob_sas.
ResolveDemoUrl(demo_url, signer_ok) ==
    IF Truthy(demo_url)
    THEN LET got == GetSignedUrl(demo_url, signer_ok)
         IN  IF Truthy(got.value)
             THEN [ demo_url       |-> got.value,
                    azure_demo_url |-> got.value,
                    messages       |-> got.errors,
                    calls          |-> got.calls ]
             ELSE [ demo_url       |-> demo_url,
                    azure_demo_url |-> got.value,
                    messages       |-> got.errors \o << WarnNoSigned >>,
                    calls          |-> got.calls ]
    ELSE [ demo_url |-> demo_url, azure_demo_url |-> None, messages |-> << >>,
           calls |-> << >> ]

----------------------------------------------------------------------------
(* helpers.py: st.session_state *)

DigitChars == << "0", "1", "2", "3", "4", "5", "6", "7", "8", "9" >>

\* str(n) of a natural number
RECURSIVE Decimal(_)
Decimal(n) ==
    IF n < Len(DigitChars) THEN << DigitChars[n + 1] >>
    ELSE Decimal(n \div Len(DigitChars))
             \o << DigitChars[(n % Len(DigitChars)) + 1] >>

\* st.session_state["_ubs_seq"], 0 while the key is not there
SeqOf(state) == Get(state, "_ubs_seq", 0)

UbsSeq == SeqOf(session_state)

BandSuffix == << "_", "b", "a", "n", "d" >>
RailSuffix == << "_", "r", "a", "i", "l" >>
UbsPrefix  == << "u", "b", "s", "_" >>

\* Mutant: a named container leaves the counter alone.
UbsContainerNamedNoCount(state, name) ==
    LET seq  == IF Truthy(name) THEN SeqOf(state) ELSE SeqOf(state) + 1
        base == IF Truthy(name) THEN name ELSE UbsPrefix \o Decimal(seq)
    IN  [ session  |-> With(state, "_ubs_seq", seq),
          name     |-> name,
          band_key |-> base \o BandSuffix,
          rail_key |-> base \o RailSuffix ]

\* ubs_container, helpers.py:69-76: the session state it leaves and the keys
\* of the two blocks it opens.
UbsContainer(state, name) ==
    LET seq  == SeqOf(state) + 1
        base == IF Truthy(name) THEN name ELSE UbsPrefix \o Decimal(seq)
    IN  [ session  |-> With(state, "_ubs_seq", seq),
          name     |-> name,
          band_key |-> base \o BandSuffix,
          rail_key |-> base \o RailSuffix ]

\* The two keyed blocks a call of ubs_container opens, with the place of
\* the call in the script.
Opened(place, container) ==
    [ place    |-> place,
      unnamed  |-> ~Truthy(container.name),
      band_key |-> container.band_key,
      rail_key |-> container.rail_key ]

\* name="ubs_toolbar", marketplace.py:79
ToolbarName == << "u", "b", "s", "_", "t", "o", "o", "l", "b", "a", "r" >>

\* the places of the two containers of marketplace.py, lines 79 and 136
ToolbarPlace == 1
GridPlace    == 2

\* inject_app_card_css_once, helpers.py:119-122: the test of the flag is
\* commented out, so the flag is set and the style block is emitted.
InjectAppCardCssOnce(state) ==
    [ session      |-> With(state, "_app_card_css_done", TRUE),
      done_before  |-> Get(state, "_app_card_css_done", FALSE),
      style_blocks |-> 1 ]

----------------------------------------------------------------------------
(* helpers.py: render_app_card *)

Untitled == << "Untitled application" >>

\* Mutant: the AI type is shown as a third tag.
TagsTokensWithAiType(app) ==
    LET business_line == Strip(GetOrEmpty(app, "business_line"))
        function      == Strip(GetOrEmpty(app, "function"))
        ai_type       == Strip(GetOrEmpty(app, "ai_type"))
    IN  (IF Truthy(business_line) THEN << business_line >> ELSE << >>)
            \o (IF Truthy(function) THEN << function >> ELSE << >>)
            \o (IF Truthy(ai_type) THEN << ai_type >> ELSE << >>)

\* lines 385-390
TagsTokens(app) ==
    LET business_line == Strip(GetOrEmpty(app, "business_line"))
        function      == Strip(GetOrEmpty(app, "function"))
    IN  (IF Truthy(business_line) THEN << business_line >> ELSE << >>)
            \o (IF Truthy(function) THEN << function >> ELSE << >>)

\* Mutant: the status is compared without lower-casing it.
StatusLabelCaseSensitive(app) ==
    LET status_raw == Strip(GetOrEmpty(app, "status"))
    IN  IF status_raw \in { << "b", "e", "t", "a" >>,
                            << "p", "r", "e", "v", "i", "e", "w" >> }
        THEN "Preview"
        ELSE ""

\* lines 399-400
StatusLabel(app) ==
    LET status_raw == Lower(Strip(GetOrEmpty(app, "status")))
    IN  IF status_raw \in { << "b", "e", "t", "a" >>,
                            << "p", "r", "e", "v", "i", "e", "w" >> }
        THEN "Preview"
        ELSE ""

\* Mutant: the docs link is appended before the demo link.
ActionsDocsBeforeDemo(app_url, demo_url, docs_url) ==
    (IF Truthy(app_url)
     THEN << [ label |-> "Open app", href |-> HtmlEscape(app_url) ] >>
     ELSE << >>)
    \o (IF Truthy(docs_url)
        THEN << [ label |-> "Read docs", href |-> HtmlEscape(docs_url) ] >>
        ELSE << >>)
    \o (IF Truthy(demo_url)
        THEN << [ label |-> "Watch demo", href |-> HtmlEscape(demo_url) ] >>
        ELSE << >>)

\* lines 406-413
Actions(app_url, demo_url, docs_url) ==
    (IF Truthy(app_url)
     THEN << [ label |-> "Open app", href |-> HtmlEscape(app_url) ] >>
     ELSE << >>)
    \o (IF Truthy(demo_url)
        THEN << [ label |-> "Watch demo", href |-> HtmlEscape(demo_url) ] >>
        ELSE << >>)
    \o (IF Truthy(docs_url)
        THEN << [ label |-> "Read docs", href |-> HtmlEscape(docs_url) ] >>
        ELSE << >>)

----------------------------------------------------------------------------
(* helpers.py: the card image *)

\* mimetypes.guess_type: the type of the suffix from the last dot, any case
GuessType(p) ==
    LET dots == { n \in 1..Len(p) : p[n] = "." }
        ext  == IF dots = {} THEN << >>
                ELSE Lower(SubSeq(p, CHOOSE n \in dots : \A d \in dots : d <= n,
                                  Len(p)))
    IN  CASE ext = << ".", "p", "n", "g" >> -> << "i", "m", "a", "g", "e", "/", "p", "n", "g" >>
          [] ext = << ".", "j", "p", "g" >> -> << "i", "m", "a", "g", "e", "/", "j", "p", "e", "g" >>
          [] ext = << ".", "s", "v", "g" >> -> SvgXml
          [] OTHER -> None

StartsWith(p, prefix) ==
    Len(p) >= Len(prefix) /\ SubSeq(p, 1, Len(prefix)) = prefix

\* helpers.py:337-349, the body of _image_to_data_uri
ResolveImage(path) ==
    IF ~Truthy(path) THEN None
    ELSE LET p == Strip(path)
         IN  IF \E prefix \in { << "h", "t", "t", "p", ":", "/", "/" >>, << "h", "t", "t", "p", "s", ":", "/", "/" >>, << "d", "a", "t", "a", ":" >> } :
                    StartsWith(p, prefix)
             THEN p
             ELSE IF p \in DOMAIN fs /\ fs[p].isfile
             THEN LET mime == IF Truthy(GuessType(p)) THEN GuessType(p)
                              ELSE << "i", "m", "a", "g", "e", "/", "p", "n", "g" >>
                  IN  B64Uri(fs[p].data, mime)
             ELSE None

\* Mutant: the function is not memoized.
ImageToDataUriUncached(path) == ResolveImage(path)

\* Mutant: a path that resolved to nothing is resolved again.
ImageToDataUriForgetsMisses(path) ==
    IF path \in DOMAIN image_cache /\ image_cache[path] # None
    THEN image_cache[path]
    ELSE ResolveImage(path)

\* helpers.py:335-336: st.cache_data returns what the first call with this
\* argument returned.
ImageToDataUri(path) ==
    IF path \in DOMAIN image_cache THEN image_cache[path] ELSE ResolveImage(path)

\* helpers.py:370
CardImage(app) ==
    LET img == ImageToDataUri(Get(app, "image", << >>))
    IN  IF Truthy(img) THEN img ELSE << >>

\* What one call of render_app_card puts on the page.
RenderAppCard(app, signer_ok) ==
    LET app_url  == Strip(GetOrEmpty(app, "app_url"))
        docs_url == Strip(GetOrEmpty(app, "docs_url"))
        demo     == ResolveDemoUrl(Strip(GetOrEmpty(app, "demo_url")), signer_ok)
    IN  [ css            |-> [ done_before  |-> InjectAppCardCssOnce(session_state).done_before,
                                style_blocks |-> InjectAppCardCssOnce(session_state).style_blocks ],
          signer_calls   |-> demo.calls,
          img            |-> CardImage(app),
          title          |-> HtmlEscape(Get(app, "title", Untitled)),
          desc           |-> HtmlEscape(Get(app, "description", << >>)),
          azure_demo_url |-> demo.azure_demo_url,
          messages       |-> demo.messages,
          tags           |-> [ n \in 1..Len(TagsTokens(app)) |->
                                   HtmlEscape(TagsTokens(app)[n]) ],
          status         |-> StatusLabel(app),
          actions        |-> Actions(app_url, demo.demo_url, docs_url) ]

----------------------------------------------------------------------------
(* marketplace.py: the filter loop *)

\* Mutant: the title is not lower-cased before the test.
CheckSearchCaseSensitive(app, query) ==
    IF ~Truthy(query) THEN "pass"
    ELSE IF "title" \notin DOMAIN app THEN "raise"
    ELSE IF ~Contains(Lower(query), app["title"]) THEN "skip"
    ELSE "pass"

\* line 125: "pass", "skip" (continue) or "raise" (KeyError)
CheckSearch(app, query) ==
    IF ~Truthy(query) THEN "pass"
    ELSE IF "title" \notin DOMAIN app THEN "raise"
    ELSE IF ~Contains(Lower(query), Lower(app["title"])) THEN "skip"
    ELSE "pass"

\* Mutant: the field is read before the selection is tested.
CheckSelectedEager(app, key, selected) ==
    IF key \notin DOMAIN app THEN "raise"
    ELSE IF selected # {} /\ app[key] \notin selected THEN "skip"
    ELSE "pass"

\* lines 127, 129, 131
CheckSelected(app, key, selected) ==
    IF selected = {} THEN "pass"
    ELSE IF key \notin DOMAIN app THEN "raise"
    ELSE IF app[key] \notin selected THEN "skip"
    ELSE "pass"

\* The four tests in the order the loop body makes them.
Checks(app) ==
    << [ key |-> "title",         res |-> CheckSearch(app, search_query) ],
       [ key |-> "ai_type",       res |-> CheckSelected(app, "ai_type", selected_ai_types) ],
       [ key |-> "business_line", res |-> CheckSelected(app, "business_line", selected_business_lines) ],
       [ key |-> "function",      res |-> CheckSelected(app, "function", selected_functions) ] >>

\* The first test that does not pass decides the iteration.
Outcome(app) ==
    LET cs == Checks(app)
        stops == { n \in 1..Len(cs) : cs[n].res # "pass" }
    IN  IF stops = {}
        THEN [ key |-> "", res |-> "pass" ]
        ELSE cs[CHOOSE n \in stops : \A m \in stops : n <= m]

\* Mutant: the record is put at the head of the list.
KeepAtHead(out, app) == << app >> \o out

\* line 133
Keep(out, app) == Append(out, app)

NoError == [ exc |-> "", key |-> "" ]

----------------------------------------------------------------------------
(* assets.py: the archive lookup *)

\* Mutant: one token found in the URL is enough.
MatchesAnyNeedle(r, needles) ==
    LET url == Lower(GetOrEmpty(r, "WebResourceURL"))
    IN  \E n \in 1..Len(needles) : Contains(Lower(needles[n]), url)

\* assets.py:35-36
Matches(r, needles) ==
    LET url == Lower(GetOrEmpty(r, "WebResourceURL"))
    IN  \A n \in 1..Len(needles) : Contains(Lower(needles[n]), url)

\* Mutant: the scan keeps the last match.
FindFirstDataUriKeepsLast(file, needles, mime_override) ==
    IF file.kind # "plist"
    THEN [ value |-> None, raised |-> "" ]
    ELSE IF file.top # "dict"
    THEN [ value |-> None, raised |-> "AttributeError" ]
    ELSE LET subs == Get(file.doc, "WebSubresources", << >>)
             hits == { n \in 1..Len(subs) : Matches(subs[n], needles) }
         IN  IF hits = {}
             THEN [ value |-> None, raised |-> "" ]
             ELSE [ value  |-> DataUriFromWa(
                                   subs[CHOOSE n \in hits : \A m \in hits : m <= n],
                                   mime_override),
                    raised |-> "" ]

\* _find_first_data_uri over the archive file as it is on disk: the value
\* returned, or the exception that escapes.  Only open() and plistlib.load
\* are inside the try; wa.get is not, and a property list whose top level
\* is not a dictionary has no get.
FindFirstDataUri(file, needles, mime_override) ==
    IF file.kind # "plist"
    THEN [ value |-> None, raised |-> "" ]
    ELSE IF file.top # "dict"
    THEN [ value |-> None, raised |-> "AttributeError" ]
    ELSE LET subs == Get(file.doc, "WebSubresources", << >>)
             hits == { n \in 1..Len(subs) : Matches(subs[n], needles) }
         IN  IF hits = {}
             THEN [ value |-> None, raised |-> "" ]
             ELSE [ value  |-> DataUriFromWa(
                                   subs[CHOOSE n \in hits : \A m \in hits : n <= m],
                                   mime_override),
                    raised |-> "" ]

\* One entry of the log of calls.
Call(needles, mime_override, got) ==
    [ needles |-> needles, mime_override |-> mime_override, value |-> got.value ]

\* Mutant: every attempt is made and the last one that finds something wins.
RECURSIVE TryChainLastWins(_, _, _)
TryChainLastWins(file, attempts, mime_override) ==
    IF attempts = << >>
    THEN [ value |-> None, raised |-> "", calls |-> << >> ]
    ELSE LET got  == FindFirstDataUri(file, Head(attempts), mime_override)
             rest == TryChainLastWins(file, Tail(attempts), mime_override)
         IN  IF got.raised # ""
             THEN [ value |-> None, raised |-> got.raised,
                    calls |-> << Call(Head(attempts), mime_override, got) >> ]
             ELSE [ value  |-> IF Truthy(rest.value) THEN rest.value ELSE got.value,
                    raised |-> rest.raised,
                    calls  |-> << Call(Head(attempts), mime_override, got) >>
                                   \o rest.calls ]

\* a() or b() or ...: the lookups of one global, left to right, stopping at
\* the first that returns a value or raises.
RECURSIVE TryChain(_, _, _)
TryChain(file, attempts, mime_override) ==
    IF attempts = << >>
    THEN [ value |-> None, raised |-> "", calls |-> << >> ]
    ELSE LET got == FindFirstDataUri(file, Head(attempts), mime_override)
         IN  IF got.raised # "" \/ Truthy(got.value)
             THEN [ value |-> got.value, raised |-> got.raised,
                    calls |-> << Call(Head(attempts), mime_override, got) >> ]
             ELSE LET rest == TryChain(file, Tail(attempts), mime_override)
                  IN  [ value  |-> rest.value,
                        raised |-> rest.raised,
                        calls  |-> << Call(Head(attempts), mime_override, got) >>
                                       \o rest.calls ]

Frutiger == << "f", "r", "u", "t", "i", "g", "e", "r" >>
DotWoff2 == << ".", "w", "o", "f", "f", "2" >>

LogoUrl == << "h", "t", "t", "p", "s", ":", "/", "/", "w", "w", "w", ".", "u", "b", "s", ".", "c", "o", "m", "/", "e", "t", "c", "/", "d", "e", "s", "i", "g", "n", "s", "/", "f", "i", "t", "/", "i", "m", "g", "/", "U", "B", "S", "_", "L", "o", "g", "o", "_", "S", "e", "m", "i", "b", "o", "l", "d", ".", "s", "v", "g" >>
HeroUrl == << "h", "t", "t", "p", "s", ":", "/", "/", "w", "w", "w", ".", "u", "b", "s", ".", "c", "o", "m", "/", "c", "o", "n", "t", "e", "n", "t", "/", "h", "o", "m", "e", "p", "a", "g", "e", "/", "u", "k", "/", "e", "n", "/", "n", "e", "w", "-", "p", "r", "o", "m", "o", "t", "i", "o", "n", "s", "/", "g", "w", "r", "2", "0", "2", "5", "/", "j", "c", "r", ":", "c", "o", "n", "t", "e", "n", "t", "/", "p", "r", "o", "m", "o", "t", "i", "o", "n", "/", "i", "m", "a", "g", "e", "-", "l", ".", "3", "8", "4", "0", ".", "j", "p", "g", "/", "1", "7", "5", "0", "2", "4", "9", "3", "5", "3", "9", "7", "3", ".", "j", "p", "g" >>

\* assets.py:61-82: the lookups of each archive-backed global, in the order
\* they are tried, the MIME override, and what `or` falls back to at the end.
Chains ==
    [ LOGO_URI |->
          [ attempts |-> << << << "u", "b", "s", "_" >>, << "l", "o", "g", "o" >>, << "s", "e", "m", "i", "b", "o", "l", "d" >>, << ".", "s", "v", "g" >> >> >>,
            mime     |-> None,
            default  |-> LogoUrl ],
      HERO_URI |->
          [ attempts |-> << << << "p", "r", "o", "m", "o", "t", "i", "o", "n" >>, << "i", "m", "a", "g", "e", "-", "l" >>, << ".", "j", "p", "g" >> >> >>,
            mime     |-> None,
            default  |-> HeroUrl ],
      FONT_LT |->
          [ attempts |-> << << Frutiger, << "-", "l", "t" >>, DotWoff2 >>,
                            << Frutiger, << "l", "i", "g", "h", "t" >>, DotWoff2 >> >>,
            mime     |-> Woff2,
            default  |-> None ],
      FONT_RG |->
          [ attempts |-> << << Frutiger, << "-", "r", "g" >>, DotWoff2 >>,
                            << Frutiger, << "r", "e", "g", "u", "l", "a", "r" >>, DotWoff2 >>,
                            << Frutiger, << "r", "o", "m", "a", "n" >>, DotWoff2 >> >>,
            mime     |-> Woff2,
            default  |-> None ],
      FONT_MD |->
          [ attempts |-> << << Frutiger, << "-", "m", "d" >>, DotWoff2 >>,
                            << Frutiger, << "m", "e", "d", "i", "u", "m" >>, DotWoff2 >> >>,
            mime     |-> Woff2,
            default  |-> None ],
      UBS_ICONS |->
          [ attempts |-> << << << "u", "b", "s", "-", "h", "o", "m", "e", "p", "a", "g", "e", "v", "3", "-", "f", "o", "n", "t", "-", "i", "c", "o", "n", "s" >>, DotWoff2 >> >>,
            mime     |-> Woff2,
            default  |-> None ] ]

\* One archive-backed global: its value, the exception that escaped, the calls.
ResolveFromArchive(file, name) ==
    LET tried == TryChain(file, Chains[name].attempts, Chains[name].mime)
    IN  [ value  |-> IF Truthy(tried.value) THEN tried.value
                     ELSE Chains[name].default,
          raised |-> tried.raised,
          calls  |-> tried.calls ]

----------------------------------------------------------------------------
(* assets.py: the two remote icons *)

\* _download_svg_data_uri: requests.get raises when the endpoint cannot be
\* reached; any answer, an error page too, is encoded as it came.
DownloadSvgDataUri(answer) ==
    IF answer.status = "unreachable"
    THEN [ value |-> None, raised |-> "ConnectionError", calls |-> << >> ]
    ELSE [ value |-> B64Uri(answer.body, SvgXml), raised |-> "", calls |-> << >> ]

\* the bytes of <svg ...> and </svg> around the path, assets.py:57
SvgOpen  == << 60, 115, 118, 103, 62 >>
SvgClose == << 60, 47, 115, 118, 103, 62 >>

\* Mutant: a document without a path yields an icon with nothing in it.
SearchIconUriEmptyIcon(answer) ==
    IF answer.status = "unreachable"
    THEN [ value |-> None, raised |-> "ConnectionError", calls |-> << >> ]
    ELSE IF ~answer.wellformed
    THEN [ value |-> None, raised |-> "ParseError", calls |-> << >> ]
    ELSE LET found == { n \in 1..Len(answer.elements) :
                            answer.elements[n].tag = "{http://www.w3.org/2000/svg}path" }
             xml   == IF found = {} THEN << >>
                      ELSE answer.elements[CHOOSE n \in found :
                                               \A m \in found : n <= m].xml
         IN  [ value  |-> B64Uri(SvgOpen \o xml \o SvgClose, SvgXml),
               raised |-> "",
               calls  |-> << >> ]

\* assets.py:51-58.  The answer holds whether the body is well-formed XML
\* and its elements below the root in document order; root.find returns the
\* first path in the SVG namespace, or None, and ET.tostring(None) raises.
SearchIconUri(answer) ==
    IF answer.status = "unreachable"
    THEN [ value |-> None, raised |-> "ConnectionError", calls |-> << >> ]
    ELSE IF ~answer.wellformed
    THEN [ value |-> None, raised |-> "ParseError", calls |-> << >> ]
    ELSE LET found == { n \in 1..Len(answer.elements) :
                            answer.elements[n].tag = "{http://www.w3.org/2000/svg}path" }
         IN  IF found = {}
             THEN [ value |-> None, raised |-> "AttributeError", calls |-> << >> ]
             ELSE LET path_el == answer.elements[CHOOSE n \in found :
                                                     \A m \in found : n <= m]
                  IN  [ value  |-> << "d", "a", "t", "a", ":", "i", "m", "a", "g", "e", "/", "s", "v", "g", "+", "x", "m", "l", ";", "b", "a", "s", "e", "6", "4", "," >>
                                       \o Base64(SvgOpen \o path_el.xml \o SvgClose),
                        raised |-> "",
                        calls  |-> << >> ]

\* The globals of assets.py in the order the module assigns them.
AssetOrder ==
    << "CONTACT_ICON_URI", "SEARCH_ICON_URI", "LOGO_URI", "HERO_URI",
       "FONT_LT", "FONT_RG", "FONT_MD", "UBS_ICONS" >>

\* The right-hand side of one global's assignment.
Resolve(name) ==
    CASE name = "CONTACT_ICON_URI" -> DownloadSvgDataUri(remote.contact)
      [] name = "SEARCH_ICON_URI"  -> SearchIconUri(remote.search)
      [] OTHER                     -> ResolveFromArchive(archive, name)

Face(family, weight, src) == [ family |-> family, weight |-> weight, src |-> src ]

\* Mutant: the light face is repeated at weight 400 whenever it is present.
FontfaceBlocksAliasAlways(FONT_LT, FONT_RG, FONT_MD, UBS_ICONS) ==
    (IF Truthy(FONT_LT)
     THEN << Face("FrutigerforUBSWeb", 300, FONT_LT) >> ELSE << >>)
    \o (IF Truthy(FONT_RG)
        THEN << Face("FrutigerforUBSWeb", 400, FONT_RG) >> ELSE << >>)
    \o (IF Truthy(FONT_MD)
        THEN << Face("FrutigerforUBSWeb", 500, FONT_MD) >> ELSE << >>)
    \o (IF Truthy(FONT_LT)
        THEN << Face("FrutigerforUBSWeb", 400, FONT_LT) >> ELSE << >>)
    \o (IF Truthy(UBS_ICONS)
        THEN << Face("ubs-icons", 300, UBS_ICONS) >> ELSE << >>)

\* Mutant: the light face is never repeated at weight 400.
FontfaceBlocksNoAlias(FONT_LT, FONT_RG, FONT_MD, UBS_ICONS) ==
    (IF Truthy(FONT_LT)
     THEN << Face("FrutigerforUBSWeb", 300, FONT_LT) >> ELSE << >>)
    \o (IF Truthy(FONT_RG)
        THEN << Face("FrutigerforUBSWeb", 400, FONT_RG) >> ELSE << >>)
    \o (IF Truthy(FONT_MD)
        THEN << Face("FrutigerforUBSWeb", 500, FONT_MD) >> ELSE << >>)
    \o (IF Truthy(UBS_ICONS)
        THEN << Face("ubs-icons", 300, UBS_ICONS) >> ELSE << >>)

\* fontface_blocks, over the module's globals
FontfaceBlocks(FONT_LT, FONT_RG, FONT_MD, UBS_ICONS) ==
    (IF Truthy(FONT_LT)
     THEN << Face("FrutigerforUBSWeb", 300, FONT_LT) >> ELSE << >>)
    \o (IF Truthy(FONT_RG)
        THEN << Face("FrutigerforUBSWeb", 400, FONT_RG) >> ELSE << >>)
    \o (IF Truthy(FONT_MD)
        THEN << Face("FrutigerforUBSWeb", 500, FONT_MD) >> ELSE << >>)
    \o (IF Truthy(FONT_LT) /\ ~Truthy(FONT_RG)
        THEN << Face("FrutigerforUBSWeb", 400, FONT_LT) >> ELSE << >>)
    \o (IF Truthy(UBS_ICONS)
        THEN << Face("ubs-icons", 300, UBS_ICONS) >> ELSE << >>)

----------------------------------------------------------------------------
(* The archives and endpoint answers the model draws from *)

\* Longest archive with freely chosen sub-resources.
MaxResources == 2

Res(url, mime, data) ==
    [ WebResourceURL |-> url, WebResourceMIMEType |-> mime, WebResourceData |-> data ]

FontLtA  == Res(<< "/", "F", "r", "u", "t", "i", "g", "e", "r", "-", "L", "t", ".", "w", "o", "f", "f", "2" >>, << "f", "o", "n", "t", "/", "x" >>, << 1 >>)
FontLight == Res(<< "/", "F", "R", "U", "T", "I", "G", "E", "R", "-", "L", "i", "g", "h", "t", ".", "w", "o", "f", "f", "2" >>, << "f", "o", "n", "t", "/", "x" >>, << 4 >>)
FontRg   == Res(<< "/", "F", "r", "u", "t", "i", "g", "e", "r", "-", "R", "g", ".", "w", "o", "f", "f", "2" >>, << "f", "o", "n", "t", "/", "x" >>, << 5 >>)
FontRoman == Res(<< "/", "f", "r", "u", "t", "i", "g", "e", "r", "-", "r", "o", "m", "a", "n", ".", "w", "o", "f", "f", "2" >>, << "f", "o", "n", "t", "/", "x" >>, << 6 >>)
FontMd   == Res(<< "/", "F", "r", "u", "t", "i", "g", "e", "r", "-", "M", "d", ".", "w", "o", "f", "f", "2" >>, << "f", "o", "n", "t", "/", "x" >>, << 7 >>)
FontMedium == Res(<< "/", ".", "w", "o", "f", "f", "2", "?", "f", "=", "m", "e", "d", "i", "u", "m", "-", "f", "r", "u", "t", "i", "g", "e", "r" >>, << "f", "o", "n", "t", "/", "x" >>, << 8 >>)
FontIcons == Res(<< "/", "u", "b", "s", "-", "h", "o", "m", "e", "p", "a", "g", "e", "v", "3", "-", "f", "o", "n", "t", "-", "i", "c", "o", "n", "s", ".", "w", "o", "f", "f", "2" >>, << "f", "o", "n", "t", "/", "x" >>, << 9 >>)
LogoRes  == Res(<< "/", "U", "B", "S", "_", "L", "o", "g", "o", "_", "S", "e", "m", "i", "b", "o", "l", "d", ".", "s", "v", "g" >>, SvgXml, << 10, 11, 12 >>)
HeroRes  == Res(<< "/", "p", "r", "o", "m", "o", "t", "i", "o", "n", "/", "i", "m", "a", "g", "e", "-", "l", ".", "3", "8", "4", "0", ".", "j", "p", "g" >>, << "i", "m", "a", "g", "e", "/", "j", "p", "e", "g" >>, << 255, 216 >>)
\* a font file that names no weight: one token short of every font lookup
FontPlain == Res(<< "/", "f", "r", "u", "t", "i", "g", "e", "r", ".", "w", "o", "f", "f", "2" >>, << "f", "o", "n", "t", "/", "x" >>, << 13 >>)

\* The sub-resources the freely built archives are made of.
ResourcePool ==
    { FontLtA, FontLight, FontMedium, FontPlain, LogoRes,
      [ WebResourceURL |-> << "/", "u", "b", "s", "_", "l", "o", "g", "o", "_", "s", "e", "m", "i", "b", "o", "l", "d", ".", "s", "v", "g" >> ] }

\* The sub-resources that occur in the archives given one by one.
OtherResources ==
    { FontRg, FontRoman, FontMd, FontIcons, HeroRes,
      Without(LogoRes, "WebResourceURL") }

MissingArchive    == [ kind |-> "missing",    top |-> "",      doc |-> << >> ]
UnreadableArchive == [ kind |-> "unreadable", top |-> "",      doc |-> << >> ]
GarbageArchive    == [ kind |-> "garbage",    top |-> "",      doc |-> << >> ]
\* a well-formed property list whose top level is an array
ArrayArchive      == [ kind |-> "plist",      top |-> "array", doc |-> << >> ]
\* a dictionary without the WebSubresources key
BareArchive       == [ kind |-> "plist",      top |-> "dict",  doc |-> << >> ]

WebArchive(subs) ==
    [ kind |-> "plist", top |-> "dict", doc |-> [ WebSubresources |-> subs ] ]

\* The sub-sequence of the four fonts named in the set.
FontsOf(set) ==
    SelectSeq(<< FontLtA, FontRg, FontMd, FontIcons >>, LAMBDA r : r \in set)

AllFontsArchive == WebArchive(<< FontLtA, FontRg, FontMd, FontIcons >>)

Archives ==
    { MissingArchive, UnreadableArchive, GarbageArchive, ArrayArchive, BareArchive }
        \cup { WebArchive(subs) :
                   subs \in UNION { [ 1..n -> ResourcePool ] : n \in 0..MaxResources } }
        \cup { WebArchive(FontsOf(set)) :
                   set \in SUBSET { FontLtA, FontRg, FontMd, FontIcons } }
        \cup { WebArchive(<< FontRoman >>),
               WebArchive(<< Without(LogoRes, "WebResourceURL"), HeroRes >>),
               WebArchive(<< Without(FontLtA, "WebResourceData"), FontLight >>),
               WebArchive(<< With(FontRg, "WebResourceData", << >>), FontRoman >>) }

Answer(status, body) == [ status |-> status, body |-> body ]

ContactAnswers ==
    { Answer("ok", << 60, 115, 62 >>),       \* the icon
      Answer("ok", << 52, 48, 52 >>),        \* the body of an error page
      Answer("unreachable", << >>) }

SvgPath == "{http://www.w3.org/2000/svg}path"

Document(status, wellformed, elements) ==
    [ status |-> status, wellformed |-> wellformed, elements |-> elements ]

Element(tag, xml) == [ tag |-> tag, xml |-> xml ]

SearchAnswers ==
    { Document("ok", TRUE, << Element("{http://www.w3.org/2000/svg}g", << 1 >>),
                              Element(SvgPath, << 2 >>),
                              Element(SvgPath, << 3 >>) >>),
      Document("ok", TRUE, << Element("path", << 4 >>) >>),
      Document("ok", TRUE, << >>),
      Document("ok", FALSE, << >>),
      Document("unreachable", FALSE, << >>) }

RemoteOk ==
    [ contact |-> Answer("ok", << 60, 115, 62 >>),
      search  |-> Document("ok", TRUE,
                      << Element("{http://www.w3.org/2000/svg}g", << 1 >>),
                         Element(SvgPath, << 2 >>),
                         Element(SvgPath, << 3 >>) >>) ]

Remotes == [ contact : ContactAnswers, search : SearchAnswers ]

NoAssets == << >>

NoPage ==
    [ shown |-> FALSE, hero |-> << >>, fontfaces |-> << >>, logo |-> << >>,
      contact_icon |-> << >>, search_icon |-> << >> ]

----------------------------------------------------------------------------
(* One page view *)

Fresh ==
    /\ app_cards = << >>
    /\ search_query = << >>
    /\ selected_ai_types = {}
    /\ selected_business_lines = {}
    /\ selected_functions = {}
    /\ i = 0
    /\ filtered_apps = << >>
    /\ j = 0
    /\ rendered = << >>
    /\ error = NoError

\* A new browser session, at hour 0.
SessionFresh ==
    /\ session_state = << >>
    /\ containers = << >>
    /\ clock = 0

\* Nothing of assets.py has run.
AssetsFresh ==
    /\ boot = 0
    /\ assets = NoAssets
    /\ imported_from = [ archive |-> archive, remote |-> remote ]
    /\ lookups = << >>
    /\ page = NoPage

\* The multi-record catalogs run with the storage account configured, the
\* catalogs that vary the links also with nothing configured, and the card
\* with a demo under every environment.
Init ==
    /\ store \in Stores
    /\ env \in Envs
    /\ \/ env = FullEnv
       \/ store \in DemoCatalogs /\ env = << >>
       \/ store = << KycDemo >>
    /\ pc = "import"
    /\ Fresh
    /\ fs = NoFiles
    /\ image_cache = << >>
    /\ archive = MissingArchive
    /\ remote = RemoteOk
    /\ AssetsFresh
    /\ SessionFresh

pageVars == <<fs, image_cache, sessionVars, store, env, app_cards, search_query,
              selected_ai_types,
              selected_business_lines, selected_functions, i, filtered_apps,
              j, rendered>>

\* marketplace.py:14-16, while assets.py is not yet in sys.modules: the
\* assignment of its next global.  An exception leaves no module behind and
\* ends the run.
ImportStep ==
    /\ pc = "import"
    /\ boot < Len(AssetOrder)
    /\ LET name == AssetOrder[boot + 1]
           got  == Resolve(name)
       IN  IF got.raised # ""
           THEN /\ pc' = "crashed"
                /\ error' = [ exc |-> got.raised, key |-> name ]
                /\ boot' = 0
                /\ assets' = NoAssets
                /\ lookups' = << >>
           ELSE /\ boot' = boot + 1
                /\ assets' = With(assets, name, got.value)
                /\ lookups' = lookups \o got.calls
                /\ UNCHANGED <<pc, error>>
    /\ imported_from' = [ archive |-> archive, remote |-> remote ]
    /\ UNCHANGED <<pageVars, archive, remote, page>>

\* marketplace.py:14-17 with assets.py in sys.modules: the import binds the
\* names and runs nothing.
ImportDone ==
    /\ pc = "import"
    /\ boot = Len(AssetOrder)
    /\ pc' = "sections"
    /\ UNCHANGED <<pageVars, error, assetVars, imageVars>>

\* marketplace.py:38-69: the CSS, the header, the hero and the services
RenderSections ==
    /\ pc = "sections"
    /\ page' = [ shown        |-> TRUE,
                 hero         |-> assets["HERO_URI"],
                 fontfaces    |-> FontfaceBlocks(assets["FONT_LT"], assets["FONT_RG"],
                                                 assets["FONT_MD"], assets["UBS_ICONS"]),
                 logo         |-> assets["LOGO_URI"],
                 contact_icon |-> assets["CONTACT_ICON_URI"],
                 search_icon  |-> assets["SEARCH_ICON_URI"] ]
    /\ pc' = "load"
    /\ UNCHANGED <<pageVars, error, archive, remote, boot, assets,
                   imported_from, lookups>>

\* marketplace.py:72-74
LoadCatalog ==
    /\ pc = "load"
    /\ app_cards' = store
    /\ pc' = "toolbar"
    /\ UNCHANGED <<store, env, search_query, selected_ai_types,
                   selected_business_lines, selected_functions, i,
                   filtered_apps, j, rendered, error>>
    /\ UNCHANGED <<assetVars, imageVars, sessionVars>>

\* marketplace.py:79-92 and 123: the widgets return what the user entered
Toolbar ==
    /\ pc = "toolbar"
    /\ search_query' \in SearchTexts
    /\ selected_ai_types' \in SUBSET AiTypeOptions
    /\ selected_business_lines' \in SUBSET BusinessLineOptions
    /\ selected_functions' \in SUBSET FunctionOptions
    /\ filtered_apps' = << >>
    /\ i' = 1
    /\ pc' = "filter"
    /\ session_state' = UbsContainer(session_state, ToolbarName).session
    /\ containers' = Append(containers,
                            Opened(ToolbarPlace, UbsContainer(session_state, ToolbarName)))
    /\ UNCHANGED <<store, env, app_cards, j, rendered, error>>
    /\ UNCHANGED <<assetVars, imageVars, clock>>

\* marketplace.py:124-133, one iteration
FilterStep ==
    /\ pc = "filter"
    /\ i <= Len(app_cards)
    /\ LET app == app_cards[i]
           out == Outcome(app)
       IN  CASE out.res = "raise" ->
                    /\ pc' = "crashed"
                    /\ error' = [ exc |-> "KeyError", key |-> out.key ]
                    /\ UNCHANGED <<i, filtered_apps>>
             [] out.res = "skip" ->
                    /\ i' = i + 1
                    /\ UNCHANGED <<pc, error, filtered_apps>>
             [] OTHER ->
                    /\ filtered_apps' = Keep(filtered_apps, app)
                    /\ i' = i + 1
                    /\ UNCHANGED <<pc, error>>
    /\ UNCHANGED <<store, env, app_cards, search_query, selected_ai_types,
                   selected_business_lines, selected_functions, j, rendered>>
    /\ UNCHANGED <<assetVars, imageVars, sessionVars>>

\* the loop is exhausted; marketplace.py:136-139
FilterDone ==
    /\ pc = "filter"
    /\ i > Len(app_cards)
    /\ pc' = "render"
    /\ j' = 1
    /\ session_state' = UbsContainer(session_state, << >>).session
    /\ containers' = Append(containers,
                            Opened(GridPlace, UbsContainer(session_state, << >>)))
    /\ UNCHANGED <<store, env, app_cards, search_query, selected_ai_types,
                   selected_business_lines, selected_functions, i,
                   filtered_apps, rendered, error>>
    /\ UNCHANGED <<assetVars, imageVars, clock>>

\* marketplace.py:140-142, one iteration
RenderStep ==
    /\ pc = "render"
    /\ j <= Len(filtered_apps)
    /\ \E signer_ok \in BOOLEAN :
           rendered' = Append(rendered, RenderAppCard(filtered_apps[j], signer_ok))
    /\ j' = j + 1
    /\ UNCHANGED <<store, env, pc, app_cards, search_query, selected_ai_types,
                   selected_business_lines, selected_functions, i,
                   filtered_apps, error>>
    /\ image_cache' = With(image_cache, Get(filtered_apps[j], "image", << >>),
                            ImageToDataUri(Get(filtered_apps[j], "image", << >>)))
    /\ session_state' = InjectAppCardCssOnce(session_state).session
    /\ UNCHANGED <<assetVars, fs, containers, clock>>

\* Mutant: the end of the view saves the filtered catalog.
RenderDoneSavesFiltered ==
    /\ pc = "render"
    /\ j > Len(filtered_apps)
    /\ pc' = "done"
    /\ store' = filtered_apps
    /\ UNCHANGED <<env, app_cards, search_query, selected_ai_types,
                   selected_business_lines, selected_functions, i,
                   filtered_apps, j, rendered, error>>
    /\ UNCHANGED <<assetVars, imageVars, sessionVars>>

\* marketplace.py:143-146
RenderDone ==
    /\ pc = "render"
    /\ j > Len(filtered_apps)
    /\ pc' = "done"
    /\ UNCHANGED <<store, env, app_cards, search_query, selected_ai_types,
                   selected_business_lines, selected_functions, i,
                   filtered_apps, j, rendered, error>>
    /\ UNCHANGED <<assetVars, imageVars, sessionVars>>

\* Mutant: every run of the script executes assets.py again.
RerunReimports ==
    /\ pc \in { "done", "crashed" }
    /\ UbsSeq < MaxSeq
    /\ pc' = "import"
    /\ app_cards' = << >>
    /\ search_query' = << >>
    /\ selected_ai_types' = {}
    /\ selected_business_lines' = {}
    /\ selected_functions' = {}
    /\ i' = 0
    /\ filtered_apps' = << >>
    /\ j' = 0
    /\ rendered' = << >>
    /\ error' = NoError
    /\ page' = NoPage
    /\ boot' = 0
    /\ assets' = NoAssets
    /\ lookups' = << >>
    /\ UNCHANGED <<store, env, archive, remote, imported_from, imageVars,
                   sessionVars>>

\* Mutant: the cards drawn stay on the page into the next view.
RerunKeepsRendered ==
    /\ pc \in { "done", "crashed" }
    /\ UbsSeq < MaxSeq
    /\ pc' = "import"
    /\ app_cards' = << >>
    /\ search_query' = << >>
    /\ selected_ai_types' = {}
    /\ selected_business_lines' = {}
    /\ selected_functions' = {}
    /\ i' = 0
    /\ filtered_apps' = << >>
    /\ j' = 0
    /\ error' = NoError
    /\ page' = NoPage
    /\ UNCHANGED <<store, env, archive, remote, boot, assets, imported_from,
                   lookups, imageVars, sessionVars, rendered>>

\* The next page view: the script runs again from its first line, with
\* what the process and the session keep.
Rerun ==
    /\ pc \in { "done", "crashed" }
    /\ UbsSeq < MaxSeq
    /\ pc' = "import"
    /\ app_cards' = << >>
    /\ search_query' = << >>
    /\ selected_ai_types' = {}
    /\ selected_business_lines' = {}
    /\ selected_functions' = {}
    /\ i' = 0
    /\ filtered_apps' = << >>
    /\ j' = 0
    /\ rendered' = << >>
    /\ error' = NoError
    /\ page' = NoPage
    /\ UNCHANGED <<store, env, archive, remote, boot, assets, imported_from,
                   lookups, imageVars, sessionVars>>

Next ==
    \/ ImportStep
    \/ ImportDone
    \/ RenderSections
    \/ LoadCatalog
    \/ Toolbar
    \/ FilterStep
    \/ FilterDone
    \/ RenderStep
    \/ RenderDone
    \/ Rerun

Spec == Init /\ [][Next]_vars

----------------------------------------------------------------------------
(* Process start under every archive and endpoint answer *)

\* An empty catalog; every archive with the endpoints answering well, and
\* every pair of answers with no archive and with all fonts in the archive.
AssetInit ==
    /\ store = << >>
    /\ env = FullEnv
    /\ pc = "import"
    /\ Fresh
    /\ fs = NoFiles
    /\ image_cache = << >>
    /\ archive \in Archives
    /\ remote \in Remotes
    /\ remote = RemoteOk \/ archive \in { MissingArchive, AllFontsArchive }
    /\ AssetsFresh
    /\ SessionFresh

\* marketplace.py:71-146 with the empty catalog: the two containers are
\* opened and no card is drawn; none of the globals of assets.py is read
\* or written.
MarketplaceRuns ==
    /\ pc = "load"
    /\ pc' = "done"
    /\ LET toolbar == UbsContainer(session_state, ToolbarName)
           grid    == UbsContainer(toolbar.session, << >>)
       IN  /\ session_state' = grid.session
           /\ containers' = containers \o << Opened(ToolbarPlace, toolbar),
                                                Opened(GridPlace, grid) >>
    /\ UNCHANGED <<store, env, app_cards, search_query, selected_ai_types,
                   selected_business_lines, selected_functions, i,
                   filtered_apps, j, rendered, error, assetVars, imageVars,
                   clock>>

\* Between two views the archive file is replaced or removed and the
\* endpoints recover.
Redeploy ==
    /\ pc \in { "done", "crashed" }
    /\ archive' \in { MissingArchive, AllFontsArchive, WebArchive(<< FontLight >>) }
    /\ remote' = RemoteOk
    /\ archive' # archive \/ remote' # remote
    /\ UNCHANGED <<pageVars, pc, error, boot, assets, imported_from, lookups, page>>

AssetNext ==
    \/ ImportStep
    \/ ImportDone
    \/ RenderSections
    \/ MarketplaceRuns
    \/ Rerun
    \/ Redeploy

AssetSpec == AssetInit /\ [][AssetNext]_vars

----------------------------------------------------------------------------
(* Page views while apps.json is edited *)

\* Two records told apart by their image, which needs no file.
StoreCards ==
    { With(RiskSummarizer, "image", << "d", "a", "t", "a", ":", "x" >>),
      With(KycAssistant, "image", << "h", "t", "t", "p", "s", ":", "/", "/", "h" >>) }

StoreCatalogs == UNION { [ 1..n -> StoreCards ] : n \in 0..MaxCards }

StoreInit ==
    /\ store \in StoreCatalogs
    /\ env = FullEnv
    /\ pc = "import"
    /\ Fresh
    /\ fs = NoFiles
    /\ image_cache = << >>
    /\ archive = MissingArchive
    /\ remote = RemoteOk
    /\ AssetsFresh
    /\ SessionFresh

\* Between two views apps.json is replaced by an empty catalog or by a
\* catalog of one record.
StoreChange ==
    /\ pc \in { "done", "crashed" }
    /\ store' \in { << >> } \cup Single(StoreCards)
    /\ store' # store
    /\ UNCHANGED <<env, pc, app_cards, search_query, selected_ai_types,
                   selected_business_lines, selected_functions, i,
                   filtered_apps, j, rendered, error, assetVars, imageVars,
                   sessionVars>>

StoreNext == Next \/ StoreChange

StoreSpec == StoreInit /\ [][StoreNext]_vars

----------------------------------------------------------------------------
(* Page views while the image files come and go *)

ImageInit ==
    /\ store \in Single(ImageCards)
    /\ env = FullEnv
    /\ pc = "import"
    /\ Fresh
    /\ fs \in FsStates
    /\ image_cache = << >>
    /\ archive = MissingArchive
    /\ remote = RemoteOk
    /\ AssetsFresh
    /\ SessionFresh

\* Between two views files are added, replaced or removed.
FsChange ==
    /\ pc \in { "done", "crashed" }
    /\ fs' \in FsStates \ { fs }
    /\ UNCHANGED <<store, env, pc, app_cards, search_query, selected_ai_types,
                   selected_business_lines, selected_functions, i,
                   filtered_apps, j, rendered, error, assetVars, image_cache,
                   sessionVars>>

ImageNext == Next \/ FsChange

ImageSpec == ImageInit /\ [][ImageNext]_vars

----------------------------------------------------------------------------
(* Page views under every storage configuration, while time passes *)

AccountName   == << "a", "c" >>
AccountKey    == << "k" >>
ContainerName == << "c", "n" >>

SignEnv ==
    [ k \in EnvKeys |->
          IF k = "AZURE_STORAGE_ACCOUNT_NAME" THEN AccountName
          ELSE IF k = "AZURE_STORAGE_ACCOUNT_KEY" THEN AccountKey
          ELSE ContainerName ]

\* All three variables set, each to a value of its own; one of them unset
\* or set to the empty string; none set.
SignEnvs ==
    { SignEnv, << >> }
        \cup { Without(SignEnv, k) : k \in EnvKeys }
        \cup { With(SignEnv, k, << >>) : k \in EnvKeys }

\* A card without demo_url, with a blank one, with one to trim, and two
\* cards with different demos.
SignCatalogs ==
    Single(Varied({KycAssistant}, "demo_url", { << " " >>, << " ", "d" >> }))
        \cup { << KycDemo, With(KycAssistant, "demo_url", << "e", " " >>) >> }

SignInit ==
    /\ store \in SignCatalogs
    /\ env \in SignEnvs
    /\ pc = "import"
    /\ Fresh
    /\ fs = NoFiles
    /\ image_cache = << >>
    /\ archive = MissingArchive
    /\ remote = RemoteOk
    /\ AssetsFresh
    /\ SessionFresh

\* An hour passes.
Tick ==
    /\ clock < MaxClock
    /\ clock' = clock + 1
    /\ UNCHANGED <<store, env, pc, app_cards, search_query, selected_ai_types,
                   selected_business_lines, selected_functions, i,
                   filtered_apps, j, rendered, error, assetVars, imageVars,
                   session_state, containers>>

SignNext == Next \/ Tick

SignSpec == SignInit /\ [][SignNext]_vars

----------------------------------------------------------------------------
(* What the claims speak of *)

FilterFinished == pc \in { "render", "done" }

FilterKeys == { "title", "ai_type", "business_line", "function" }

Selected(key) ==
    CASE key = "ai_type"       -> selected_ai_types
      [] key = "business_line" -> selected_business_lines
      [] key = "function"      -> selected_functions

\* the text of a field, empty when the record has none
Field(app, key) == IF key \in DOMAIN app THEN app[key] ELSE << >>

TitleHas(app) ==
    search_query = << >> \/ Contains(Lower(search_query), Lower(app["title"]))

Passes(app) ==
    /\ TitleHas(app)
    /\ selected_ai_types = {} \/ app["ai_type"] \in selected_ai_types
    /\ selected_business_lines = {} \/ app["business_line"] \in selected_business_lines
    /\ selected_functions = {} \/ app["function"] \in selected_functions

\* The elements of s at the positions in I, in the order of s.
Pick(s, I) ==
    LET F[n \in 0..Len(s)] ==
            IF n = 0 THEN << >>
            ELSE IF n \in I THEN Append(F[n - 1], s[n]) ELSE F[n - 1]
    IN  F[Len(s)]

Labels(card) == [ n \in 1..Len(card.actions) |-> card.actions[n].label ]

Rank(label) ==
    CASE label = "Open app"   -> 1
      [] label = "Watch demo" -> 2
      [] label = "Read docs"  -> 3

\* The k-th rendered card asked for a signed URL and got none.
SigningFailed(k) ==
    /\ Strip(Field(filtered_apps[k], "demo_url")) # << >>
    /\ rendered[k].azure_demo_url = None

\* C1: over a catalog of well-formed cards the filter keeps a card iff the
\* search text is empty or in the title regardless of case, and each of the
\* three selections is empty or holds the card's value; the description is
\* not searched.
C1_KeepsIffAllFourHold ==
    (FilterFinished /\ \A k \in 1..Len(app_cards) : FilterKeys \subseteq DOMAIN app_cards[k])
        => filtered_apps = SelectSeq(app_cards, Passes)

\* the scenario of the spec: search "kY" keeps the KYC card alone, though the
\* description of the other card holds the text
C1_Witness ==
    /\ pc = "done"
    /\ app_cards = << RiskSummarizer, KycAssistant >>
    /\ search_query = << "k", "Y" >>
    /\ Contains(Lower(search_query), Lower(RiskSummarizer["description"]))
    /\ filtered_apps = << KycAssistant >>

\* C2: the filtered list is a subsequence of the catalog (same relative
\* order, each position at most once, duplicates kept apart), and with all
\* four criteria empty it is the whole catalog.
C2_Subsequence ==
    /\ \E I \in SUBSET (1..Len(app_cards)) : filtered_apps = Pick(app_cards, I)
    /\ ( /\ FilterFinished
         /\ search_query = << >>
         /\ selected_ai_types = {}
         /\ selected_business_lines = {}
         /\ selected_functions = {} ) => filtered_apps = app_cards

\* a catalog holding the same card twice, both kept under an active filter
C2_Witness ==
    /\ pc = "done"
    /\ Len(app_cards) = 2
    /\ app_cards[1] = app_cards[2]
    /\ selected_ai_types # {}
    /\ filtered_apps = app_cards

\* C3: a card whose signing failed has no "Watch demo" action.
C3_FailedSigningOmitsDemo ==
    \A k \in 1..Len(rendered) :
        SigningFailed(k) => "Watch demo" \notin Range(Labels(rendered[k]))

\* C4: "Open app" is there iff the trimmed app_url is non-empty, "Read docs"
\* iff the trimmed docs_url is non-empty, and the actions present stand in
\* the order primary, demo, docs.
C4_ActionsPresentAndOrdered ==
    \A k \in 1..Len(rendered) :
        LET labels == Labels(rendered[k])
        IN  /\ "Open app" \in Range(labels)
                <=> Strip(Field(filtered_apps[k], "app_url")) # << >>
            /\ "Read docs" \in Range(labels)
                <=> Strip(Field(filtered_apps[k], "docs_url")) # << >>
            /\ \A m, n \in 1..Len(labels) :
                   m < n => Rank(labels[m]) < Rank(labels[n])

\* a card without app_url rendered with both secondary links
C4_Witness ==
    \E k \in 1..Len(rendered) :
        /\ "app_url" \notin DOMAIN filtered_apps[k]
        /\ Labels(rendered[k]) = << "Watch demo", "Read docs" >>

\* C5: a record with no title key never aborts the filter loop.
C5_NoTitleNeverAborts ==
    ~(pc = "crashed" /\ error = [ exc |-> "KeyError", key |-> "title" ])

\* C6: a record lacking ai_type, business_line or function under an active
\* filter on that dimension is left out without the filter raising.
C6_MissingKeyIsNonMatch ==
    ~(pc = "crashed" /\ error.exc = "KeyError"
        /\ error.key \in { "ai_type", "business_line", "function" })

PassesWhereRead(app) ==
    /\ search_query = << >>
        \/ ("title" \in DOMAIN app /\ Contains(Lower(search_query), Lower(app["title"])))
    /\ \A key \in { "ai_type", "business_line", "function" } :
           Selected(key) = {} \/ (key \in DOMAIN app /\ app[key] \in Selected(key))

\* A record of the catalog lacks a key whose selection is empty.
LacksUnselectedKey ==
    \E k \in 1..Len(app_cards) :
        \E key \in { "ai_type", "business_line", "function" } :
            key \notin DOMAIN app_cards[k] /\ Selected(key) = {}

\* C7: a missing ai_type, business_line or function is never read while that
\* dimension's selection is empty, and a record lacking it is kept iff the
\* other predicates hold.
C7_MissingKeyPassesEmptySelection ==
    /\ (pc = "crashed" /\ error.key # "title") => Selected(error.key) # {}
    /\ (FilterFinished /\ LacksUnselectedKey)
           => filtered_apps = SelectSeq(app_cards, PassesWhereRead)

\* a record without ai_type kept while another dimension is filtered
C7_Witness ==
    /\ pc = "done"
    /\ selected_ai_types = {}
    /\ selected_business_lines # {}
    /\ \E k \in 1..Len(filtered_apps) : "ai_type" \notin DOMAIN filtered_apps[k]

NonEmpty(values) == SelectSeq(values, LAMBDA v : v # << >>)

Escaped(values) == [ n \in 1..Len(values) |-> HtmlEscape(values[n]) ]

\* C8 as stated: the tags are the non-empty values of (business_line,
\* function), in that order.
C8_TagsAreNonEmptyValues ==
    \A k \in 1..Len(rendered) :
        rendered[k].tags =
            Escaped(NonEmpty(<< Field(filtered_apps[k], "business_line"),
                                Field(filtered_apps[k], "function") >>))

\* C8 amended: the tags are the trimmed values of (business_line, function)
\* that are non-empty after trimming, in that order; ai_type and the tags
\* field never show.
C8_TagsAreTrimmedNonEmptyValues ==
    \A k \in 1..Len(rendered) :
        rendered[k].tags =
            Escaped(NonEmpty(<< Strip(Field(filtered_apps[k], "business_line")),
                                Strip(Field(filtered_apps[k], "function")) >>))

\* a blank business_line gives no tag, a padded function gives its trimmed text
C8_Witness ==
    \E k \in 1..Len(rendered) :
        /\ Field(filtered_apps[k], "business_line") = << " " >>
        /\ Field(filtered_apps[k], "function") = << " ", "I", "B", "\n" >>
        /\ "ai_type" \in DOMAIN filtered_apps[k]
        /\ "tags" \in DOMAIN filtered_apps[k]
        /\ rendered[k].tags = << << "I", "B" >> >>

\* C9: the status label is "Preview" exactly when the status, trimmed and
\* lower-cased, is "beta" or "preview", and is absent otherwise.
C9_StatusLabel ==
    \A k \in 1..Len(rendered) :
        LET normal == Lower(Strip(Field(filtered_apps[k], "status")))
        IN  /\ rendered[k].status \in { "Preview", "" }
            /\ rendered[k].status = "Preview"
                <=> \/ normal = << "b", "e", "t", "a" >>
                    \/ normal = << "p", "r", "e", "v", "i", "e", "w" >>

\* a padded upper-case status is shown as Preview
C9_Witness ==
    \E k \in 1..Len(rendered) :
        /\ Field(filtered_apps[k], "status") = << " ", "B", "E", "T", "A", "\n" >>
        /\ rendered[k].status = "Preview"

----------------------------------------------------------------------------
(* What the claims about assets.py speak of *)

\* The sub-resources of the archive the import read.
ImportedSubs ==
    LET file == imported_from.archive
    IN  IF file.kind = "plist" /\ file.top = "dict"
        THEN Get(file.doc, "WebSubresources", << >>)
        ELSE << >>

\* The sub-resources a logged call matched, by position.
HitsOf(call) ==
    { n \in 1..Len(ImportedSubs) : Matches(ImportedSubs[n], call.needles) }

\* Every token, lower-cased, occurs in the lower-cased URL.
AllTokensIn(r, needles) ==
    \A t \in Range(needles) : Contains(Lower(t), Lower(Field(r, "WebResourceURL")))

Reorderings(needles) ==
    { [ n \in 1..Len(needles) |-> needles[f[n]] ] :
        f \in { g \in [ 1..Len(needles) -> 1..Len(needles) ] :
                    \A a, b \in 1..Len(needles) : g[a] = g[b] => a = b } }

\* Every token list of assets.py gives the same verdict in every order, on
\* every sub-resource of the archives.
OrderIrrelevant ==
    \A name \in DOMAIN Chains :
        \A needles \in Range(Chains[name].attempts) :
            \A r \in ResourcePool \cup OtherResources :
                \A other \in Reorderings(needles) :
                    Matches(r, other) <=> Matches(r, needles)

\* What each attempt of a global's chain finds in the archive the import read.
FoundBy(name) ==
    [ k \in 1..Len(Chains[name].attempts) |->
          FindFirstDataUri(imported_from.archive, Chains[name].attempts[k],
                           Chains[name].mime).value ]

\* The attempts that find something.
Finders(found) == { k \in 1..Len(found) : found[k] # None }

First(set) == CHOOSE k \in set : \A m \in set : k <= m

\* The attempts a chain has to make: up to its first finder, or all of them.
TriesOf(name) ==
    LET finders == Finders(FoundBy(name))
    IN  IF finders = {} THEN Chains[name].attempts
        ELSE SubSeq(Chains[name].attempts, 1, First(finders))

RECURSIVE TriesOfAll(_)
TriesOfAll(names) ==
    IF names = << >> THEN << >>
    ELSE TriesOf(Head(names)) \o TriesOfAll(Tail(names))

\* The archive-backed globals assigned so far, in assignment order.
AssignedFromArchive ==
    SelectSeq(AssetOrder, LAMBDA name : name \in DOMAIN assets \cap DOMAIN Chains)

HasSvgPath(doc) ==
    /\ doc.status = "ok"
    /\ doc.wellformed
    /\ \E n \in 1..Len(doc.elements) : doc.elements[n].tag = SvgPath

FirstSvgPath(doc) ==
    doc.elements[CHOOSE n \in 1..Len(doc.elements) :
                     /\ doc.elements[n].tag = SvgPath
                     /\ \A m \in 1..(n - 1) : doc.elements[m].tag # SvgPath]

ImportComplete == boot = Len(AssetOrder)

\* C11: a lookup returns the data URI of the first sub-resource, in stored
\* order, that matches its tokens; later matches are never returned.
C11_FirstMatchWins ==
    \A call \in Range(lookups) :
        \A n \in HitsOf(call) :
            (\A m \in HitsOf(call) : n <= m)
                => call.value = DataUriFromWa(ImportedSubs[n], call.mime_override)

\* two sub-resources with different payloads match, the earlier is returned
C11_Witness ==
    \E call \in Range(lookups) :
        \E n, m \in HitsOf(call) :
            /\ n < m
            /\ DataUriFromWa(ImportedSubs[n], call.mime_override)
                   # DataUriFromWa(ImportedSubs[m], call.mime_override)
            /\ call.value = DataUriFromWa(ImportedSubs[n], call.mime_override)

\* C12: a lookup finds something exactly when some sub-resource's URL
\* contains every token, letter case ignored; the order of the tokens does
\* not matter.
C12_MatchIffAllTokens ==
    /\ \A call \in Range(lookups) :
           call.value # None
               <=> \E n \in 1..Len(ImportedSubs) :
                       AllTokensIn(ImportedSubs[n], call.needles)
    /\ OrderIrrelevant

\* a URL in another letter case, with the tokens in another order, is found
C12_Witness ==
    \E call \in Range(lookups) :
        /\ call.value = DataUriFromWa(FontMedium, call.mime_override)
        /\ \E other \in Range(lookups) :
               other.value = DataUriFromWa(FontLight, other.mime_override)

\* C13: whatever the state of the archive file, no archive lookup raises.
C13_ArchiveLookupNeverRaises ==
    ~(pc = "crashed" /\ error.key \in DOMAIN Chains)

\* C14: the lookups of a global are made in their fixed order and stop at
\* the first that finds something, whose result is the value; when none
\* finds anything the value is the hardcoded URL for the logo and the hero
\* image and nothing for a font.
C14_ChainInOrder ==
    /\ \A name \in DOMAIN assets \cap DOMAIN Chains :
           LET found   == FoundBy(name)
               finders == Finders(found)
           IN  IF finders = {}
               THEN assets[name] = Chains[name].default
               ELSE assets[name] = found[First(finders)]
    /\ [ n \in 1..Len(lookups) |-> lookups[n].needles ]
           = TriesOfAll(AssignedFromArchive)

\* the archive holds a light face under both names: the first lookup's wins
C14_Witness ==
    /\ "FONT_LT" \in DOMAIN assets
    /\ Finders(FoundBy("FONT_LT")) = { 1, 2 }
    /\ FoundBy("FONT_LT")[1] # FoundBy("FONT_LT")[2]
    /\ assets["FONT_LT"] = FoundBy("FONT_LT")[1]

\* C15: the font faces are light at 300, regular at 400, medium at 500, the
\* light face again at 400 exactly when light is present and regular is
\* not, and the icon font at 300 last, each only when its font resolved.
C15_FontfaceOrder ==
    page.shown =>
        LET lt == assets["FONT_LT"]
            rg == assets["FONT_RG"]
            md == assets["FONT_MD"]
            ic == assets["UBS_ICONS"]
            all == << Face("FrutigerforUBSWeb", 300, lt),
                      Face("FrutigerforUBSWeb", 400, rg),
                      Face("FrutigerforUBSWeb", 500, md),
                      Face("FrutigerforUBSWeb", 400, lt),
                      Face("ubs-icons", 300, ic) >>
            present == << lt # None, rg # None, md # None,
                          lt # None /\ rg = None, ic # None >>
        IN  page.fontfaces = Pick(all, { n \in 1..Len(all) : present[n] })

\* light, medium and icons without regular: the alias follows medium
C15_Witness ==
    /\ page.shown
    /\ Len(page.fontfaces) = 4
    /\ page.fontfaces[Len(page.fontfaces)].family = "ubs-icons"
    /\ page.fontfaces[Len(page.fontfaces) - 1]
           = Face("FrutigerforUBSWeb", 400, assets["FONT_LT"])
    /\ assets["FONT_RG"] = None

\* C16: when the icon-definitions document has no path element or cannot
\* be parsed the search icon is never assigned, and a page is shown only
\* with the icon that wraps the first path of the document.
C16_NoPageWithoutSearchIcon ==
    LET doc == imported_from.remote.search
    IN  /\ "SEARCH_ICON_URI" \in DOMAIN assets => HasSvgPath(doc)
        /\ page.shown =>
               /\ HasSvgPath(doc)
               /\ page.search_icon
                      = B64Uri(SvgOpen \o FirstSvgPath(doc).xml \o SvgClose, SvgXml)

\* the document has a path outside the SVG namespace only: the import raised
C16_Witness ==
    /\ pc = "crashed"
    /\ error = [ exc |-> "AttributeError", key |-> "SEARCH_ICON_URI" ]
    /\ remote.search.elements # << >>
    /\ ~HasSvgPath(remote.search)
    /\ ~page.shown
    /\ assets = NoAssets

\* C17: the extraction of the search icon is the only asset failure that
\* aborts the import.
C17_OnlyIconExtractionAborts ==
    pc = "crashed" /\ error.key \in Range(AssetOrder)
        => error.key = "SEARCH_ICON_URI"

----------------------------------------------------------------------------
(* What the claims about the catalog file and the card image speak of *)

InView == pc \in { "toolbar", "filter", "render" }

\* C19: every view works on the catalog as apps.json holds it at that view,
\* so a change made between two views shows in the next one; no step of a
\* view writes the file or alters a loaded record.
C19_CatalogReadAnewNeverWritten ==
    /\ [](InView => app_cards = store)
    /\ [](Range(filtered_apps) \subseteq Range(app_cards))
    /\ [][pc \notin { "done", "crashed" } => store' = store]_vars
    /\ [][InView => app_cards' = app_cards]_vars

\* an earlier view rendered a record that the file no longer holds; the
\* present view shows the file's one new record
C19_Witness ==
    /\ pc = "done"
    /\ store = << With(KycAssistant, "image", << "h", "t", "t", "p", "s", ":", "/", "/", "h" >>) >>
    /\ app_cards = store
    /\ Len(rendered) = 1
    /\ rendered[1].img = << "h", "t", "t", "p", "s", ":", "/", "/", "h" >>
    /\ << "d", "a", "t", "a", ":", "x" >> \in DOMAIN image_cache

IsRemoteOrData(p) ==
    \E prefix \in { << "h", "t", "t", "p", ":", "/", "/" >>, << "h", "t", "t", "p", "s", ":", "/", "/" >>, << "d", "a", "t", "a", ":" >> } :
        /\ Len(p) >= Len(prefix)
        /\ \A n \in 1..Len(prefix) : p[n] = prefix[n]

\* What the card shows for an image value when it is resolved against the
\* files as they are now.
ImageNow(v) ==
    LET p == Strip(v)
    IN  IF IsRemoteOrData(p) THEN p
        ELSE IF p \in DOMAIN fs /\ fs[p].isfile
        THEN B64Uri(fs[p].data,
                    IF GuessType(p) = None THEN << "i", "m", "a", "g", "e", "/", "p", "n", "g" >> ELSE GuessType(p))
        ELSE << >>

OrEmpty(x) == IF x = None THEN << >> ELSE x

----------------------------------------------------------------------------
(* What the claims about the signed link speak of *)

\* the demo_url render_app_card works with, helpers.py:374
DemoOf(k) == Strip(GetOrEmpty(filtered_apps[k], "demo_url"))

ConfigComplete ==
    \A key \in EnvKeys : key \in DOMAIN env /\ env[key] # << >>

\* C21: get_signed_url returns no URL whenever one of the account name, the
\* key and the container is absent or empty, and then the signing SDK is not
\* invoked; with all three present and the signer succeeding it returns the
\* URL made of the account, the container, the blob name and the token.
C21_NoUrlWithoutConfig ==
    \A k \in 1..Len(rendered) :
        DemoOf(k) # << >> =>
            /\ ~ConfigComplete =>
                   /\ rendered[k].azure_demo_url = None
                   /\ rendered[k].signer_calls = << >>
            /\ ConfigComplete /\ rendered[k].signer_calls # << >>
                   /\ rendered[k].signer_calls[1].returned =>
                   rendered[k].azure_demo_url =
                       << "https://" >> \o env["AZURE_STORAGE_ACCOUNT_NAME"]
                           \o << ".blob.core.windows.net/" >>
                           \o env["AZURE_STORAGE_CONTAINER_NAME"]
                           \o << "/" >> \o DemoOf(k) \o << "?", "sas_token" >>

\* the key is set to the empty string: no URL and no call; and a later view
\* of the same session cannot differ, the environment being read once
C21_Witness ==
    \E k \in 1..Len(rendered) :
        /\ DemoOf(k) = << "d" >>
        /\ "AZURE_STORAGE_ACCOUNT_KEY" \in DOMAIN env
        /\ env["AZURE_STORAGE_ACCOUNT_KEY"] = << >>
        /\ Truthy(account_name) /\ Truthy(container_name)
        /\ rendered[k].azure_demo_url = None
        /\ rendered[k].signer_calls = << >>

\* C22 as stated: the signer is invoked exactly once for a card whose
\* demo_url is not empty, and not at all for one whose demo_url is empty.
C22_SignerOncePerDemoUrl ==
    \A k \in 1..Len(rendered) :
        /\ GetOrEmpty(filtered_apps[k], "demo_url") # << >> /\ ConfigComplete =>
               Len(rendered[k].signer_calls) = 1
        /\ GetOrEmpty(filtered_apps[k], "demo_url") = << >> =>
               rendered[k].signer_calls = << >>

\* C22: in every view, each card drawn whose demo_url is not empty once
\* trimmed has, under a complete configuration, the signer invoked exactly
\* once, whether the call returns or raises; a card whose demo_url is absent,
\* empty or blank has it not invoked.
C22_SignerOncePerCard ==
    \A k \in 1..Len(rendered) :
        /\ DemoOf(k) # << >> /\ ConfigComplete =>
               Len(rendered[k].signer_calls) = 1
        /\ DemoOf(k) = << >> => rendered[k].signer_calls = << >>

\* a second view of the two-card catalog: the signer raised, was called once
\* for the card with a demo and not at all for the other
C22_Witness ==
    /\ UbsSeq > 2
    /\ Len(rendered) = 2
    /\ DemoOf(1) # << >> /\ DemoOf(2) # << >> /\ DemoOf(1) # DemoOf(2)
    /\ ConfigComplete
    /\ Len(rendered[1].signer_calls) = 1
    /\ ~rendered[1].signer_calls[1].returned
    /\ Len(rendered[2].signer_calls) = 1
    /\ rendered[2].signer_calls[1].returned

\* C25: every signed link is asked for with read permission only, to expire
\* exactly one hour after the request, for the blob named by the card's
\* trimmed demo_url.
C25_ReadOnlyOneHour ==
    [][Len(rendered') = Len(rendered) + 1 =>
           \A n \in 1..Len(rendered'[Len(rendered')].signer_calls) :
               LET call == rendered'[Len(rendered')].signer_calls[n]
               IN  /\ call.permission = { "read" }
                   /\ call.expiry = clock + 1
                   /\ call.blob_name = Strip(GetOrEmpty(filtered_apps[j], "demo_url"))]_vars

\* a link asked for after an hour has passed, for the demo " d"
C25_Witness ==
    \E k \in 1..Len(rendered) :
        /\ Get(filtered_apps[k], "demo_url", << >>) = << " ", "d" >>
        /\ Len(rendered[k].signer_calls) = 1
        /\ rendered[k].signer_calls[1].blob_name = << "d" >>
        /\ rendered[k].signer_calls[1].expiry = 2
        /\ rendered[k].signer_calls[1].permission = { "read" }

----------------------------------------------------------------------------
(* What the claims about the session state speak of *)

Unnamed == { n \in 1..Len(containers) : containers[n].unnamed }

\* C26: an unnamed ubs_container at a given place in the script gets the
\* same band key and the same rail key on every rerun of the session.
C26_SameKeysOnEveryRerun ==
    \A a, b \in Unnamed :
        containers[a].place = containers[b].place =>
            /\ containers[a].band_key = containers[b].band_key
            /\ containers[a].rail_key = containers[b].rail_key

\* C27: once inject_app_card_css_once has emitted the style block in a
\* session, a further call emits nothing.
C27_StyleBlockOncePerSession ==
    \A k \in 1..Len(rendered) :
        rendered[k].css.done_before => rendered[k].css.style_blocks = 0

\* C28: _ubs_seq starts at 0, goes up by exactly 1 with every call of
\* ubs_container, named or not, and by nothing else, so it never goes down
\* or back to 0 in a session; any two unnamed calls get different band keys
\* and different rail keys.
C28_SeqCountsEveryContainer ==
    /\ UbsSeq = 0
    /\ [][/\ Len(containers') >= Len(containers)
          /\ UbsSeq' = UbsSeq + (Len(containers') - Len(containers))
          /\ (pc = "toolbar" /\ pc' = "filter") \/ (pc = "filter" /\ pc' = "render")
                 => UbsSeq' = UbsSeq + 1]_vars
    /\ [](\A a, b \in Unnamed :
              a # b => /\ containers[a].band_key # containers[b].band_key
                       /\ containers[a].rail_key # containers[b].rail_key)

\* two views in a session: four containers opened, two of them unnamed
C28_Witness ==
    /\ UbsSeq = 4
    /\ Len(containers) = 4
    /\ Cardinality(Unnamed) = 2
    /\ containers[2].band_key = << "u", "b", "s", "_", "2", "_", "b", "a", "n", "d" >>
    /\ containers[4].rail_key = << "u", "b", "s", "_", "4", "_", "r", "a", "i", "l" >>

----------------------------------------------------------------------------
(* What the claims about the data URI and the font faces speak of *)

DataPrefix   == << "d", "a", "t", "a", ":" >>
Base64Marker == << ";", "b", "a", "s", "e", "6", "4", "," >>

\* The attempts of a chain that some sub-resource of the archive matches.
Matched(name) ==
    { k \in 1..Len(Chains[name].attempts) :
        \E n \in 1..Len(ImportedSubs) :
            Matches(ImportedSubs[n], Chains[name].attempts[k]) }

\* C24: the data URI of a matched sub-resource carries the MIME override of
\* the lookup when one is given, else the declared MIME type of the
\* sub-resource, else application/octet-stream, over the payload or nothing;
\* a matched sub-resource without a payload still counts as found, and no
\* later fallback of the chain is tried.
C24_MimeOfDataUri ==
    /\ \A call \in Range(lookups) :
           HitsOf(call) # {} =>
               LET r    == ImportedSubs[First(HitsOf(call))]
                   mime == IF call.mime_override # None THEN call.mime_override
                           ELSE IF "WebResourceMIMEType" \in DOMAIN r
                           THEN r["WebResourceMIMEType"]
                           ELSE OctetStream
                   data == IF "WebResourceData" \in DOMAIN r
                           THEN r["WebResourceData"] ELSE << >>
               IN  call.value = DataPrefix \o mime \o Base64Marker \o Base64(data)
    /\ \A name \in DOMAIN Chains :
           \A k \in Matched(name) :
               \A m \in (k + 1)..Len(Chains[name].attempts) :
                   \A call \in Range(lookups) :
                       call.needles # Chains[name].attempts[m]

\* the "-lt" font has no payload and the "light" font has one: the light
\* font is the empty data URI with the override, "light" is never looked up
C24_Witness ==
    /\ ImportComplete
    /\ ImportedSubs = << Without(FontLtA, "WebResourceData"), FontLight >>
    /\ assets["FONT_LT"] = DataPrefix \o Woff2 \o Base64Marker
    /\ \A call \in Range(lookups) :
           call.needles # Chains["FONT_LT"].attempts[2]

Faces400 ==
    { n \in 1..Len(page.fontfaces) :
        /\ page.fontfaces[n].family = "FrutigerforUBSWeb"
        /\ page.fontfaces[n].weight = 400 }

\* C29: under every combination of fonts found, fontface_blocks gives at
\* most one FrutigerforUBSWeb face of weight 400, the regular font or else
\* the light one, exactly one when the light or the regular font is there,
\* and never two faces of the same family and weight.
C29_OneFacePerWeight ==
    page.shown =>
        /\ Cardinality(Faces400) <= 1
        /\ Cardinality(Faces400) = 1
               <=> assets["FONT_LT"] # None \/ assets["FONT_RG"] # None
        /\ \A n \in Faces400 :
               page.fontfaces[n].src = IF assets["FONT_RG"] # None
                                       THEN assets["FONT_RG"]
                                       ELSE assets["FONT_LT"]
        /\ \A n, m \in 1..Len(page.fontfaces) :
               /\ page.fontfaces[n].family = page.fontfaces[m].family
               /\ page.fontfaces[n].weight = page.fontfaces[m].weight
               => n = m

\* light without regular: the one face of weight 400 is the light font
C29_Witness ==
    /\ page.shown
    /\ assets["FONT_LT"] # None
    /\ assets["FONT_RG"] = None
    /\ \E n \in Faces400 : page.fontfaces[n].src = assets["FONT_LT"]
    /\ Cardinality(Faces400) = 1

----------------------------------------------------------------------------
(* What the claims about the state kept between views speak of *)

CardDrawn == Len(rendered') = Len(rendered) + 1

\* C30: _image_to_data_uri is memoized per image string across views: once
\* a string has been resolved, to nothing too, every later card with that
\* string shows the first result, whatever has become of the file since.
C30_ImageMemoized ==
    /\ [][CardDrawn =>
              LET v == Get(filtered_apps[j], "image", << >>)
              IN  /\ v \in DOMAIN image_cache'
                  /\ v \in DOMAIN image_cache =>
                         /\ image_cache' = image_cache
                         /\ rendered'[Len(rendered')].img = OrEmpty(image_cache[v])]_vars
    /\ [][\A v \in DOMAIN image_cache :
              v \in DOMAIN image_cache' /\ image_cache'[v] = image_cache[v]]_vars

\* the file a.png was not there at the first view and is there now: the
\* card still shows no image
C30_Witness ==
    \E k \in 1..Len(rendered) :
        /\ Get(filtered_apps[k], "image", << >>) = << " ", "a", ".", "p", "n", "g" >>
        /\ << "a", ".", "p", "n", "g" >> \in DOMAIN fs
        /\ fs[<< "a", ".", "p", "n", "g" >>].isfile
        /\ rendered[k].img = << >>

====
